---- MODULE Spec2Model ----
(***************************************************************************)
(* Model of the signal-processing pipeline of giants/giants.py (class      *)
(* Giant): the cleaner _clean_data, and the spectral, autocorrelation,     *)
(* transit-selection and phase-folding computations of Giant.plot.         *)
(*                                                                         *)
(* Units.  Times are integers in units of 2^-14 day, the resolution at     *)
(* which every downlink constant of _clean_data is exact.  Fluxes are      *)
(* integers in parts per million, so the literal 1 of "lc.flux - 1" is     *)
(* FluxOne and the factor 1e6 of "flux * 1e6" is the change of unit from   *)
(* relative flux to ppm.  Quotients that the code forms in floating point  *)
(* are kept as exact fractions <<numerator, denominator>>.                 *)
(***************************************************************************)
EXTENDS Integers, Sequences, FiniteSets, TLC

VARIABLES heap, callerLc, self_lc, call, cleaned,   \* the cleaner
          lastResult, used,                          \* readers of self.lc
          spIn, sp,                                  \* spectrum and ACF
          results, cand,                             \* transit search
          foldIn, folded, foldedShift, foldSort,     \* phase folding
          pl, bm, el          \* calls of plot, build_model, from_eleanor

cleanVars == <<heap, callerLc, self_lc, call, cleaned, lastResult, used>>

spectrumVars == <<spIn, sp>>

transitVars == <<results, cand>>

foldVars == <<foldIn, folded, foldedShift, foldSort>>

callVars == <<pl, bm, el>>

vars == <<heap, callerLc, self_lc, call, cleaned, lastResult, used,
          spIn, sp, results, cand,
          foldIn, folded, foldedShift, foldSort, pl, bm, el>>

(***************************************************************************)
(* Bounds of the model.                                                    *)
(***************************************************************************)
MaxLen == 62

(***************************************************************************)
(* Program constants.                                                      *)
(***************************************************************************)
TimePerDay == 16384
BurnIn == 30
Sigma == 6
MaxIters == 5
FluxOne == 1000000
FluxErr == 10

MomdumpLo == 1339 * TimePerDay
MomdumpHi == 1341 * TimePerDay

\* The downlink times of _clean_data, in units of 2^-14 day.
downlinks ==
  << 21949269, 22423721, 23285588, 23782570, 24217428, 24653331, 25072147,
     25149630, 25505640, 25932307, 26391399, 26870631, 27339023, 27809666,
     28261855, 28699445 >>

(***************************************************************************)
(* Generic helpers on sequences.                                           *)
(***************************************************************************)
Max(a, b) == IF a >= b THEN a ELSE b

Abs(a) == IF a >= 0 THEN a ELSE 0 - a

Range(s) == { s[i] : i \in 1..Len(s) }

RECURSIVE SumSeq(_)
SumSeq(s) == IF Len(s) = 0 THEN 0 ELSE s[1] + SumSeq(Tail(s))

\* s[~mask]: the elements of s at the positions where mask is FALSE, in order.
RECURSIVE SelectNot(_, _)
SelectNot(s, mask) ==
  IF Len(s) = 0 THEN << >>
  ELSE IF mask[1] THEN SelectNot(Tail(s), Tail(mask))
       ELSE << s[1] >> \o SelectNot(Tail(s), Tail(mask))

\* Quotient rounded to the nearest integer (d > 0).
RoundDiv(n, d) == (2 * n + d) \div (2 * d)

(***************************************************************************)
(* Exact fractions <<n, d>> with d > 0, kept in lowest terms.              *)
(***************************************************************************)
RECURSIVE GCD(_, _)
GCD(a, b) == IF b = 0 THEN a ELSE GCD(b, a % b)

Norm(q) ==
  LET g == GCD(Abs(q[1]), q[2])
  IN  IF q[1] = 0 THEN << 0, 1 >> ELSE << q[1] \div g, q[2] \div g >>

RMul(p, q) ==
  LET a == Norm(<< p[1], q[2] >>)
      b == Norm(<< q[1], p[2] >>)
  IN  << a[1] * b[1], a[2] * b[2] >>

RInv(q) == IF q[1] > 0 THEN << q[2], q[1] >> ELSE << 0 - q[2], 0 - q[1] >>

RDiv(p, q) == RMul(p, RInv(q))

RAdd(p, q) ==
  LET g == GCD(p[2], q[2])
  IN  Norm(<< p[1] * (q[2] \div g) + q[1] * (p[2] \div g),
              (p[2] \div g) * q[2] >>)

RSub(p, q) == RAdd(p, << 0 - q[1], q[2] >>)

RLess(p, q) == p[1] * q[2] < q[1] * p[2]

REq(p, q) == p[1] * q[2] = q[1] * p[2]

RInt(n) == << n, 1 >>

RECURSIVE RSum(_)
RSum(s) == IF Len(s) = 0 THEN << 0, 1 >> ELSE RAdd(s[1], RSum(Tail(s)))

(***************************************************************************)
(* Light curves.  A light curve object holds three arrays; heap maps the   *)
(* identity of each live object to its current attribute values.  At most  *)
(* two objects are live: the one the caller holds and the one self.lc      *)
(* refers to (they may be the same object).                                *)
(***************************************************************************)
ObjIds == {1, 2}

EmptyLc == [time |-> << >>, flux |-> << >>, flux_err |-> << >>]

\* lk.LightCurve(time=time, flux=flux, flux_err=np.ones_like(flux) * 1e-5)
LightCurve(time, flux) ==
  [time |-> time, flux |-> flux, flux_err |-> [i \in 1..Len(flux) |-> FluxErr]]

(***************************************************************************)
(* The series a caller can hand to the cleaner: n samples at a fixed       *)
(* cadence, a flux near 1 with an optional ripple and an optional spike in *)
(* the last sample.                                                        *)
(***************************************************************************)
Cadence == 341
HalfDay == TimePerDay \div 2
Spike == 40

Lens == {1, BurnIn, BurnIn + 1, BurnIn + 6, MaxLen}

Timings ==
  { << 1400 * TimePerDay, Cadence >>,            \* far from every window
    << MomdumpLo - BurnIn * HalfDay, HalfDay >>, \* sample 31 at 1339, 35 at 1341
    << MomdumpLo + 1, Cadence >>,                \* all samples inside (1339, 1341)
    << downlinks[1] - 2 * Cadence, Cadence >> }  \* sample 3 at a downlink time

FluxShapes == { << 0, 0 >>, << 1, Spike >> }

InputLc(n, tm, sh) ==
  LightCurve([i \in 1..n |-> tm[1] + (i - 1) * tm[2]],
             [i \in 1..n |-> FluxOne + sh[1] * (i % 2)
                                + (IF i = n THEN sh[2] ELSE 0)])

(***************************************************************************)
(* _clean_data, lines 215-241.                                             *)
(***************************************************************************)
\* momdump = (lc.time > 1339) * (lc.time < 1341)
MomdumpHalfOpen(time) ==
  [i \in 1..Len(time) |-> time[i] >= MomdumpLo /\ time[i] < MomdumpHi]

Momdump(time) ==
  [i \in 1..Len(time) |-> time[i] > MomdumpLo /\ time[i] < MomdumpHi]

\* burnin = np.zeros_like(lc.time, dtype=bool); burnin[:30] = True
BurninOffByOne(time) == [i \in 1..Len(time) |-> i < BurnIn]

Burnin(time) == [i \in 1..Len(time) |-> i <= BurnIn]

\* "if d in lc.time" holds for some downlink d.  The statement it guards,
\* burnin[d:d+15] = True, slices with a float: numpy >= 1.12 raises
\* TypeError (slice indices must be integers).
DownlinkHit(time) == \E k \in 1..Len(downlinks) : downlinks[k] \in Range(time)

\* The k-th smallest value of the multiset of y at the positions in idx.
KthSmallest(y, idx, k) ==
  CHOOSE v \in { y[i] : i \in idx } :
    /\ Cardinality({ i \in idx : y[i] < v }) < k
    /\ Cardinality({ i \in idx : y[i] <= v }) >= k

\* Twice the median of y over the positions in idx (idx not empty).
Median2(y, idx) ==
  LET m == Cardinality(idx)
  IN  IF m % 2 = 1 THEN 2 * KthSmallest(y, idx, (m + 1) \div 2)
      ELSE KthSmallest(y, idx, m \div 2) + KthSmallest(y, idx, m \div 2 + 1)

\* One pass of astropy's sigma_clip (cenfunc = median, stdfunc = std): a
\* value is rejected when |y - median| > Sigma * std of the values kept so
\* far; repeated until nothing changes or MaxIters passes were made.
RECURSIVE SigmaClip(_, _, _)
SigmaClip(y, mask, iter) ==
  LET idx  == { i \in 1..Len(y) : ~mask[i] }
      m    == Cardinality(idx)
      ys   == [i \in 1..Len(y) |-> IF mask[i] THEN 0 ELSE y[i]]
      s1   == SumSeq(ys)
      s2   == SumSeq([i \in 1..Len(y) |-> ys[i] * ys[i]])
      varN == m * s2 - s1 * s1
      med2 == Median2(y, idx)
      new  == [i \in 1..Len(y) |->
                 mask[i] \/ (2 * y[i] - med2) * (2 * y[i] - med2) * m * m
                              > 4 * Sigma * Sigma * varN]
  IN  IF m = 0 THEN mask
      ELSE IF new = mask \/ iter + 1 >= MaxIters THEN new
           ELSE SigmaClip(y, new, iter + 1)

\* _, outliers = lc.remove_outliers(sigma=6, return_mask=True)
\* (the clip is invariant under a shift of the flux: it is evaluated on the
\* flux relative to its first sample to keep the integers small)
Outliers(flux) ==
  IF Len(flux) = 0 THEN << >>
  ELSE SigmaClip([i \in 1..Len(flux) |-> flux[i] - flux[1]],
                 [i \in 1..Len(flux) |-> FALSE], 0)

\* mask = momdump | outliers | burnin
CombinedMask(lc) ==
  LET mo == Momdump(lc.time)
      ou == Outliers(lc.flux)
      bu == Burnin(lc.time)
  IN  [i \in 1..Len(lc.time) |-> mo[i] \/ ou[i] \/ bu[i]]

\* scipy.ndimage.filters.gaussian_filter(flux, 90), mode 'reflect', kernel
\* truncated at 4 sigma = 360 samples.  For a series of at most MaxLen
\* samples (much shorter than sigma) the reflected series is periodic with
\* period 2n under a kernel that spans more than five periods, so every
\* output sample is the mean of the series to well below 1 ppm; the value
\* is rounded to the 1 ppm grid.  An empty series gives an empty result.
GaussianFilter(flux) ==
  [i \in 1..Len(flux) |-> RoundDiv(SumSeq(flux), Len(flux))]

\* lc.flux_err = lc.flux_err[~mask]
CleanedFluxErrUnmasked(lc, mask) == lc.flux_err

CleanedFluxErr(lc, mask) == SelectNot(lc.flux_err, mask)

\* lines 232-237: the three arrays under the one mask, flux - 1, then the
\* flux minus its Gaussian smoothing.
Cleaned(lc) ==
  LET mask == CombinedMask(lc)
      f1   == SelectNot(lc.flux, mask)
      f2   == [i \in 1..Len(f1) |-> f1[i] - FluxOne]
      g    == GaussianFilter(f2)
  IN  [time     |-> SelectNot(lc.time, mask),
       flux     |-> [i \in 1..Len(f2) |-> f2[i] - g[i]],
       flux_err |-> CleanedFluxErr(lc, mask)]

\* How a call ends: the float slice of line 229 raises before any array is
\* touched; otherwise the call returns, also when nothing is left.
CleanOutcomeEmptyRaises(lc) ==
  IF DownlinkHit(lc.time) THEN "TypeError"
  ELSE IF Len(Cleaned(lc).time) = 0 THEN "ValueError" ELSE "returned"

CleanOutcome(lc) == IF DownlinkHit(lc.time) THEN "TypeError" ELSE "returned"

\* lines 233-237 rebind the attributes of the object passed in.
StoreCleanedNowhere(h, o, new) == h

StoreCleaned(h, o, new) == [h EXCEPT ![o] = new]

\* No reader of self.lc has run since the last change of a light curve.
NoUse == [fn |-> "none", by |-> "none", outcome |-> "none", lc |-> EmptyLc]

\* No _clean_data call has returned yet.
NoResult == [set |-> FALSE, val |-> EmptyLc]

NoCall ==
  [outcome |-> "none", arg |-> 0, ret |-> 0, wasCleaned |-> FALSE,
   before |-> EmptyLc, after |-> EmptyLc, argAfter |-> EmptyLc]

\* The caller builds a new LightCurve object (lines 286, 300, 308) and
\* holds it; the object it held before is dropped unless self.lc is it.
\* call records the most recent _clean_data call made since.
NewLightCurve ==
  \E n \in Lens, tm \in Timings, sh \in FluxShapes :
    LET id == IF self_lc = 1 THEN 2 ELSE 1
    IN  /\ heap' = [heap EXCEPT ![id] = InputLc(n, tm, sh)]
        /\ callerLc' = id
        /\ cleaned' = cleaned \ {id}
        /\ call' = NoCall
        /\ used' = NoUse
        /\ UNCHANGED <<self_lc, lastResult, spectrumVars, transitVars,
                       foldVars, callVars>>

\* self._clean_data(lc) on the object the caller holds or on self.lc.
CleanData ==
  /\ \E o \in ({callerLc, self_lc} \ {0}) :
       LET before  == heap[o]
           outcome == CleanOutcome(before)
       IN  IF outcome = "returned"
           THEN LET h2 == StoreCleaned(heap, o, Cleaned(before))
                IN  /\ heap' = h2
                    /\ self_lc' = o                      \* self.lc = lc
                    /\ cleaned' = cleaned \cup {o}
                    /\ call' = [outcome |-> outcome, arg |-> o, ret |-> o,
                                wasCleaned |-> o \in cleaned,
                                before |-> before,
                                after |-> h2[o], argAfter |-> h2[o]]
                    /\ lastResult' = [set |-> TRUE, val |-> h2[o]]
                    /\ UNCHANGED callerLc
           ELSE /\ call' = [NoCall EXCEPT !.outcome = outcome, !.arg = o,
                               !.wasCleaned = o \in cleaned,
                               !.before = before, !.argAfter = heap[o]]
                /\ UNCHANGED <<heap, callerLc, self_lc, cleaned, lastResult>>
  /\ used' = NoUse
  /\ UNCHANGED <<spectrumVars, transitVars, foldVars, callVars>>

\* The functions that fall back on self.lc, and the arguments they take.
Readers ==
  { [fn |-> f, by |-> b] :
      f \in {"validate_transit", "validate_ktransit"},
      b \in {"ticid", "lc", "self.lc"} }
    \cup { [fn |-> "fit_starry_model", by |-> b] : b \in {"lc", "self.lc"} }

\* "lc = self.lc" (lines 461, 529, 766) reads the attribute of the Giant;
\* mutated: the object the caller holds.
LightCurveOfCaller(ownRef, callerRef) == callerRef

LightCurveOfSelf(ownRef, callerRef) == ownRef

\* validate_transit, validate_ktransit (lines 452-461, 757-766) and
\* fit_starry_model (lines 524-531) up to the point where the light curve
\* they work on is fixed; used records that light curve.
\*   by = "ticid":   lc = self.from_eleanor(ticid)[1], the new light curve
\*                   of NewLightCurve, then lc = self._clean_data(lc)
\*   by = "lc":      the light curve passed in, as it is
\*   by = "self.lc": neither ticid nor lc is given
Validate ==
  \E r \in Readers :
    CASE r.by = "ticid" ->
           /\ callerLc # 0 /\ callerLc \notin cleaned
           /\ LET o       == callerLc        \* what from_eleanor built
                  before  == heap[o]
                  outcome == CleanOutcome(before)
              IN  IF outcome = "returned"
                  THEN LET h2 == StoreCleaned(heap, o, Cleaned(before))
                       IN  /\ heap' = h2
                           /\ self_lc' = o
                           /\ cleaned' = cleaned \cup {o}
                           /\ lastResult' = [set |-> TRUE, val |-> h2[o]]
                           /\ used' = [fn |-> r.fn, by |-> r.by,
                                       outcome |-> "ran", lc |-> h2[o]]
                  ELSE /\ used' = [NoUse EXCEPT !.fn = r.fn, !.by = r.by,
                                                !.outcome = outcome]
                       /\ UNCHANGED <<heap, self_lc, cleaned, lastResult>>
           /\ call' = NoCall
           /\ UNCHANGED <<callerLc, spectrumVars, transitVars, foldVars, callVars>>
      [] r.by = "lc" ->
           /\ callerLc # 0
           /\ used' = [fn |-> r.fn, by |-> r.by, outcome |-> "ran",
                       lc |-> heap[callerLc]]
           /\ UNCHANGED <<heap, callerLc, self_lc, call, cleaned, lastResult,
                          spectrumVars, transitVars, foldVars, callVars>>
      [] r.by = "self.lc" ->
           LET o == LightCurveOfSelf(self_lc, callerLc)
           IN  /\ used' = IF self_lc = 0      \* no attribute lc yet
                          THEN [NoUse EXCEPT !.fn = r.fn, !.by = r.by,
                                             !.outcome = "AttributeError"]
                          ELSE [fn |-> r.fn, by |-> r.by, outcome |-> "ran",
                                lc |-> heap[o]]
               /\ UNCHANGED <<heap, callerLc, self_lc, call, cleaned,
                              lastResult, spectrumVars, transitVars,
                              foldVars, callVars>>

\* Before plot has run there is no transit candidate and no folded series.
NoResults ==
  [period |-> << >>, power |-> << >>, transit_time |-> << >>,
   depth |-> << >>, depth_snr |-> << >>]

NoCand == [set |-> FALSE, period |-> << 0, 1 >>, t0 |-> 0, depth |-> 0,
           depth_snr |-> 0]

TransitIdle == results = NoResults /\ cand = NoCand

NoFoldIn == [time |-> << >>, t0 |-> 0, period |-> 1]

NoFold == [set |-> FALSE, phase |-> << >>]

NoSort == [set |-> FALSE, flux |-> << >>, order |-> << >>,
           sorted |-> << >>, foldfluxes |-> << >>]

FoldIdle ==
  /\ foldIn = NoFoldIn /\ folded = NoFold /\ foldedShift = NoFold
  /\ foldSort = NoSort

\* Before plot has run there is no spectrum.
NoArray == [scale |-> << 0, 1 >>, pow |-> 1, vals |-> << >>]

NoSpectrum ==
  [stage |-> "none", freq |-> << >>, freqAll |-> << >>, ftsAll |-> NoArray,
   fts |-> NoArray, acf |-> NoArray]

SpectrumIdle ==
  /\ spIn = [time |-> << >>, flux |-> << >>, amp |-> << >>]
  /\ sp = NoSpectrum

\* No call of plot, of build_model or of from_eleanor has been made.
NoPlot ==
  [pc |-> "idle", source |-> "none", err |-> "none", at |-> "none",
   input |-> EmptyLc,
   time |-> << >>, flux |-> << >>, time0 |-> << >>, flux0 |-> << >>,
   bls |-> NoResults, amp |-> << >>, ran |-> << >>, cand |-> NoCand,
   spectrum |-> [freq |-> << >>, fts |-> NoArray, acf |-> NoArray],
   phases |-> << >>]

NoModel ==
  [outcome |-> "none", n |-> 0, minimum_period |-> 0, maximum_period |-> 0,
   best |-> 0]

NoSectors ==
  [pc |-> "idle", sectors |-> 0, next |-> 0, raw |-> << >>, corr |-> << >>,
   pca |-> << >>, psf |-> << >>, breakpoints |-> << >>]

CallsIdle == pl = NoPlot /\ bm = NoModel /\ el = NoSectors

\* Giant.__init__ sets no light curve: self.lc does not exist yet.
CleanIdle ==
  /\ heap = [o \in ObjIds |-> EmptyLc]
  /\ callerLc = 0
  /\ self_lc = 0
  /\ call = NoCall
  /\ cleaned = {}
  /\ lastResult = NoResult
  /\ used = NoUse

InitClean ==
  CleanIdle /\ SpectrumIdle /\ TransitIdle /\ FoldIdle /\ CallsIdle

NextClean == NewLightCurve \/ CleanData \/ Validate

SpecClean == InitClean /\ [][NextClean]_vars

(***************************************************************************)
(* Power spectrum and autocorrelation, Giant.plot lines 339-367.           *)
(***************************************************************************)
osample == 5
hifac == 3
nyq == 283
NyqMargin == 150

\* np.var(flux * 1e6): the population variance of the flux in ppm.
Variance(flux) ==
  LET n  == Len(flux)
      s1 == SumSeq(flux)
      s2 == SumSeq([i \in 1..n |-> flux[i] * flux[i]])
  IN  Norm(<< n * s2 - s1 * s1, n * n >>)

\* lomb.fasper(time, flux, osample, 3.): nout = 0.5 * ofac * hifac * n
\* frequencies k * df, k = 1..nout, with df = 1 / (ofac * (tmax - tmin)),
\* in cycles per day.
FasperNout(time) == (osample * hifac * Len(time)) \div 2

FasperFreq(time) ==
  LET xdif == time[Len(time)] - time[1]
      df   == Norm(<< TimePerDay, osample * xdif >>)
  IN  [k \in 1..FasperNout(time) |-> RMul(RInt(k), df)]

\* freq = 1000. * freq / 86.4 : cycles per day to micro-Hz.
ToMicroHz(freq) ==
  [k \in 1..Len(freq) |-> RMul(freq[k], << 10000, 864 >>)]

\* fts = 2. * amp * np.var(flux * 1e6) / (np.sum(amp) * bin): the integer
\* array amp times one exact scalar.  An array of this form is kept as
\* [scale, pow, vals], standing for scale^pow * vals[k].
NormalizedPowerNoFactor(amp, var, bin) ==
  [scale |-> RDiv(var, RMul(RInt(SumSeq(amp)), bin)), pow |-> 1, vals |-> amp]

NormalizedPower(amp, var, bin) ==
  [scale |-> RDiv(RMul(RInt(2), var), RMul(RInt(SumSeq(amp)), bin)),
   pow |-> 1, vals |-> amp]

\* use = np.where(freq < nyq + 150): TRUE at the positions kept.
Use(freq) == [k \in 1..Len(freq) |-> RLess(freq[k], RInt(nyq + NyqMargin))]

\* array[use]
Select(s, use) == SelectNot(s, [k \in 1..Len(use) |-> ~use[k]])

\* np.correlate(a, v, 'same') for arrays of one length N: output i (from 0)
\* is the lag i - N/2 (integer division) of the full correlation,
\* sum over n of a[n + lag] * v[n].
CorrelateSameLowCentre(a, v) ==
  LET N     == Len(a)
      nleft == (N - 1) \div 2
  IN  [i \in 1..N |->
         LET lag == (i - 1) - nleft
         IN  SumSeq([n \in 1..N |->
                       IF n + lag >= 1 /\ n + lag <= N
                       THEN a[n + lag] * v[n] ELSE 0])]

CorrelateSame(a, v) ==
  LET N     == Len(a)
      nleft == N \div 2
  IN  [i \in 1..N |->
         LET lag == (i - 1) - nleft
         IN  SumSeq([n \in 1..N |->
                       IF n + lag >= 1 /\ n + lag <= N
                       THEN a[n + lag] * v[n] ELSE 0])]

\* sum(power) * width, for a power array scale * vals.
IntegratedPower(fts, width) ==
  RMul(RMul(fts.scale, RInt(SumSeq(fts.vals))), width)

\* The cleaned series handed to the spectral stage, and the Lomb amplitudes
\* fasper returns for it (not negative, not all zero): a floor with one
\* peak.
SpecCadences == { TimePerDay \div 64, HalfDay }

SpecFluxes == { << -1, 1 >>, << -1, 0, 1 >>, << 2, -1, -1 >>, << 1, -1, 1, -1 >> }

SpecSeries ==
  { [time |-> [i \in 1..Len(f) |-> 1400 * TimePerDay + (i - 1) * c],
     flux |-> f] : f \in SpecFluxes, c \in SpecCadences }

AmpShapes == { << 0, 1 >>, << 0, 2 >>, << 1, 1 >>, << 1, 2 >>, << 1, 0 >> }

\* sh[1]: floor; sh[2]: where the peak is (0 none, 1 first, 2 last bin).
AmpOf(nout, sh) ==
  [k \in 1..nout |-> sh[1] + (IF (sh[2] = 1 /\ k = 1) \/ (sh[2] = 2 /\ k = nout)
                               THEN 2 ELSE 0)]

\* lines 339-350: periodogram, unit conversion, normalisation, truncation.
\* freqAll and ftsAll record the arrays before the truncation.
PowerSpectrum ==
  /\ sp.stage = "none"
  /\ LET f0  == ToMicroHz(FasperFreq(spIn.time))
         bin == RSub(f0[2], f0[1])
         all == NormalizedPower(spIn.amp, Variance(spIn.flux), bin)
         use == Use(f0)
     IN  sp' = [stage |-> "spectrum", freq |-> Select(f0, use),
                freqAll |-> f0, ftsAll |-> all,
                fts |-> [all EXCEPT !.vals = Select(all.vals, use)],
                acf |-> NoArray]
  /\ UNCHANGED <<spIn, cleanVars, transitVars, foldVars, callVars>>

\* lines 365-366: acf = np.correlate(fts, fts, 'same')
Autocorrelate ==
  /\ sp.stage = "spectrum"
  /\ sp' = [sp EXCEPT !.stage = "acf",
                      !.acf = [scale |-> sp.fts.scale, pow |-> 2,
                               vals |-> CorrelateSame(sp.fts.vals, sp.fts.vals)]]
  /\ UNCHANGED <<spIn, cleanVars, transitVars, foldVars, callVars>>

InitSpectrum ==
  /\ CleanIdle /\ TransitIdle /\ FoldIdle /\ CallsIdle
  /\ \E s \in SpecSeries, sh \in AmpShapes :
       spIn = [time |-> s.time, flux |-> s.flux,
               amp |-> AmpOf(FasperNout(s.time), sh)]
  /\ sp = NoSpectrum

NextSpectrum == PowerSpectrum \/ Autocorrelate

SpecSpectrum == InitSpectrum /\ [][NextSpectrum]_vars


(***************************************************************************)
(* Transit search, Giant.plot lines 313-318 (the same selection is made in *)
(* validate_transit, lines 463-468).                                       *)
(***************************************************************************)
MaxGrid == 4
MaxPower == 2
MinPeriodDays == 1
MaxPeriodDays == 21

\* The period grid of BoxLeastSquares.autopower(0.16, minimum_period=1.,
\* maximum_period=21.): uniform in frequency, 1 / (fmax - k * df) for
\* k = 0..G-1, so the periods ascend from 1 to 21 days (fractions of a day).
PeriodGrid(G) ==
  [k \in 1..G |->
     Norm(<< MaxPeriodDays * MinPeriodDays * (G - 1),
             MaxPeriodDays * (G - 1)
               - (MaxPeriodDays - MinPeriodDays) * (k - 1) >>)]

\* The results of one autopower call: parallel arrays over the grid.  The
\* detection power is arbitrary; transit time, depth and depth_snr are
\* different at every grid entry.
BlsResults(G, power) ==
  [period       |-> PeriodGrid(G),
   power        |-> power,
   transit_time |-> [k \in 1..G |-> 1400 * TimePerDay + 7 * k],
   depth        |-> [k \in 1..G |-> 100 * k],
   depth_snr    |-> [k \in 1..G |-> 3 * (G + 1 - k)]]

\* np.argmax(a): the index of the first occurrence of the maximum.
RECURSIVE ArgMaxLastFrom(_, _, _)
ArgMaxLastFrom(a, best, k) ==
  IF k > Len(a) THEN best
  ELSE ArgMaxLastFrom(a, IF a[k] >= a[best] THEN k ELSE best, k + 1)

RECURSIVE ArgMaxFrom(_, _, _)
ArgMaxFrom(a, best, k) ==
  IF k > Len(a) THEN best
  ELSE ArgMaxFrom(a, IF a[k] > a[best] THEN k ELSE best, k + 1)

ArgMaxLast(a) == ArgMaxLastFrom(a, 1, 2)

ArgMax(a) == ArgMaxFrom(a, 1, 2)

\* lines 315-318: period, t0, depth, depth_snr at np.argmax(results.power).
TransitSearch ==
  /\ ~cand.set
  /\ cand' = [set       |-> TRUE,
              period    |-> results.period[ArgMax(results.power)],
              t0        |-> results.transit_time[ArgMax(results.power)],
              depth     |-> results.depth[ArgMax(results.power)],
              depth_snr |-> results.depth_snr[ArgMax(results.power)]]
  /\ UNCHANGED <<results, cleanVars, spectrumVars, foldVars, callVars>>

\* A further call of plot: a new autopower result replaces the old one.
NewSearch ==
  /\ cand.set
  /\ \E G \in 2..MaxGrid : \E power \in [1..G -> 0..MaxPower] :
       results' = BlsResults(G, power)
  /\ cand' = NoCand
  /\ UNCHANGED <<cleanVars, spectrumVars, foldVars, callVars>>

InitTransit ==
  /\ CleanIdle /\ SpectrumIdle /\ FoldIdle /\ CallsIdle
  /\ \E G \in 2..MaxGrid : \E power \in [1..G -> 0..MaxPower] :
       results = BlsResults(G, power)
  /\ cand = NoCand

NextTransit == TransitSearch \/ NewSearch

SpecTransit == InitTransit /\ [][NextTransit]_vars

(***************************************************************************)
(* Phase folding, Giant.plot lines 428-430.  Times, t0 and period are      *)
(* integers in one unit; phases are exact fractions.                       *)
(***************************************************************************)
MaxPeriod == 4
MaxT0 == 3
MaxStart == 2
FoldLen == 3

\* Python's a % b for b > 0: the remainder of the floored division.
PyMod(a, b) == a - b * (a \div b)

\* phase = (t0 % period) / period
PhaseOf(t0, period) == Norm(<< PyMod(t0, period), period >>)

\* x % 1 for a fraction x.
Mod1(x) == Norm(<< PyMod(x[1], x[2]), x[2] >>)

\* foldedtimes = (((time - phase * period) / period) % 1)
FoldedTimesUnfolded(time, t0, period) ==
  [i \in 1..Len(time) |-> Norm(<< time[i] - t0, period >>)]

FoldedTimes(time, t0, period) ==
  [i \in 1..Len(time) |->
     Mod1(RDiv(RSub(RInt(time[i]), RMul(PhaseOf(t0, period), RInt(period))),
               RInt(period)))]

\* foldedtimes[foldedtimes > 0.5] -= 1
WrapFromHalf(ft) ==
  [i \in 1..Len(ft) |->
     IF ~RLess(ft[i], << 1, 2 >>) THEN RSub(ft[i], RInt(1)) ELSE ft[i]]

Wrap(ft) ==
  [i \in 1..Len(ft) |->
     IF RLess(<< 1, 2 >>, ft[i]) THEN RSub(ft[i], RInt(1)) ELSE ft[i]]

FoldPhases(time, t0, period) == Wrap(FoldedTimes(time, t0, period))

\* The fold of plot, at the epoch t0 of the candidate.
Fold ==
  /\ ~folded.set
  /\ folded' = [set |-> TRUE,
                phase |-> FoldPhases(foldIn.time, foldIn.t0, foldIn.period)]
  /\ UNCHANGED <<foldIn, foldedShift, foldSort, cleanVars, spectrumVars,
                 transitVars, callVars>>

\* The same fold at the epoch one period later.
FoldShifted ==
  /\ ~foldedShift.set
  /\ foldedShift' =
       [set |-> TRUE,
        phase |-> FoldPhases(foldIn.time, foldIn.t0 + foldIn.period,
                             foldIn.period)]
  /\ UNCHANGED <<foldIn, folded, foldSort, cleanVars, spectrumVars,
                 transitVars, callVars>>

\* np.argsort(a) with the default kind 'quicksort', which is not stable:
\* any permutation that puts a in ascending order can come back.
ArgSorts(a) ==
  { p \in [1..Len(a) -> 1..Len(a)] :
      /\ \A i, j \in 1..Len(a) : i # j => p[i] # p[j]
      /\ \A j \in 1..(Len(a) - 1) : ~RLess(a[p[j + 1]], a[p[j]]) }

\* array[order]
TakeUnordered(array, order) == array

Take(array, order) == [j \in 1..Len(order) |-> array[order[j]]]

\* The flux of the cleaned series that is folded: a different value in
\* every sample, rising or falling.
FoldFluxes ==
  { [i \in 1..FoldLen |-> 10 * i], [i \in 1..FoldLen |-> 0 - 10 * i] }

\* lines 431-435: foldtimesort = np.argsort(foldedtimes),
\* foldfluxes = flux[foldtimesort], drawn against np.sort(foldedtimes).
SortFold ==
  /\ folded.set /\ ~foldSort.set
  /\ \E flux \in FoldFluxes, order \in ArgSorts(folded.phase) :
       foldSort' = [set |-> TRUE, flux |-> flux, order |-> order,
                    sorted |-> Take(folded.phase, order),
                    foldfluxes |-> Take(flux, order)]
  /\ UNCHANGED <<foldIn, folded, foldedShift, cleanVars, spectrumVars,
                 transitVars, callVars>>

FoldSeries ==
  { [i \in 1..FoldLen |-> s + (i - 1) * c] :
      s \in (0 - MaxStart)..MaxStart, c \in 1..3 }

InitFold ==
  /\ CleanIdle /\ SpectrumIdle /\ TransitIdle /\ CallsIdle
  /\ \E tm \in FoldSeries, t \in (0 - MaxT0)..MaxT0, p \in 1..MaxPeriod :
       foldIn = [time |-> tm, t0 |-> t, period |-> p]
  /\ folded = NoFold
  /\ foldedShift = NoFold
  /\ foldSort = NoSort

NextFold == Fold \/ FoldShifted \/ SortFold

SpecFold == InitFold /\ [][NextFold]_vars

(***************************************************************************)
(* plot, lines 243-450, as the steps of one call: the light curve is       *)
(* fetched and cleaned (lines 269-311), then the transit search (313-318), *)
(* the spectrum and its autocorrelation (339-367) and the fold (428-432)   *)
(* read the arrays time and flux of line 311.  The code runs the search,   *)
(* the spectrum, then the fold; the steps are also taken in the other      *)
(* orders in which the fold follows the search.                            *)
(***************************************************************************)
MaxSearchDays == 3

Sources == {"eleanor", "lightkurve", "input"}

\* The series from_eleanor, from_lightkurve or the caller supplies: the
\* cleaner leaves none, one or three samples of them, or raises.
PlotLens == {BurnIn, BurnIn + 1, BurnIn + 3}

\* The local variable lc when line 303 (source 'input') or line 310 (the
\* other sources) reads it: lines 282-300 bind it to the fetched light
\* curve, and no line binds it to the argument input_lc.
LocalLc(lc_source, fetched, input_lc) ==
  IF lc_source \in {"eleanor", "lightkurve"}
  THEN [bound |-> TRUE, lc |-> fetched]
  ELSE [bound |-> FALSE, lc |-> EmptyLc]

\* How BoxLeastSquares(time, flux).autopower(0.16, minimum_period,
\* maximum_period) can end for n samples: the baseline max(t) - min(t) of
\* an empty series raises ValueError; with one sample, or with
\* maximum_period <= minimum_period, the call is left to the library (it
\* raises ValueError or returns a grid); the code adds no check of its own.
\* Mutated: a range check that raises InvalidSearchRangeError.
BlsOutcomesRangeChecked(n, minimum_period, maximum_period) ==
  IF n < 2 \/ maximum_period <= minimum_period
  THEN {"InvalidSearchRangeError"} ELSE {"ok"}

BlsOutcomes(n, minimum_period, maximum_period) ==
  IF n = 0 THEN {"ValueError"}
  ELSE IF n = 1 \/ maximum_period <= minimum_period
       THEN {"ok", "ValueError"}
       ELSE {"ok"}

\* lines 315-318: the entries of the results at np.argmax(results.power).
CandidateOf(res) ==
  [set       |-> TRUE,
   period    |-> res.period[ArgMax(res.power)],
   t0        |-> res.transit_time[ArgMax(res.power)],
   depth     |-> res.depth[ArgMax(res.power)],
   depth_snr |-> res.depth_snr[ArgMax(res.power)]]

\* A period in days (a fraction) in the unit of time of the model.
PeriodUnits(p) == (p[1] * TimePerDay) \div p[2]

\* lomb.fasper(time, flux, osample, 3.) on fewer than two samples raises
\* InsufficientDataError.
FasperOutcome(time) ==
  IF Len(time) < 2 THEN "InsufficientDataError" ELSE "ok"

\* Line 343 is not inside a try block: what fasper raises ends plot.
\* Mutated: the exception is swallowed, as in the try/except of lines
\* 139-158.
SpectralOutcomeSwallowed(time) == "ok"

SpectralOutcome(time) == FasperOutcome(time)

EmptySpectrum == [freq |-> << >>, fts |-> NoArray, acf |-> NoArray]

\* lines 343-350 and 366 for the arrays time and flux and the Lomb
\* amplitudes amp of fasper.
SpectrumOf(time, flux, amp) ==
  IF Len(time) < 2 THEN EmptySpectrum
  ELSE LET f0  == ToMicroHz(FasperFreq(time))
           bin == RSub(f0[2], f0[1])
           all == NormalizedPower(amp, Variance(flux), bin)
           use == Use(f0)
           fts == [all EXCEPT !.vals = Select(all.vals, use)]
       IN  [freq |-> Select(f0, use), fts |-> fts,
            acf  |-> [scale |-> fts.scale, pow |-> 2,
                      vals |-> CorrelateSame(fts.vals, fts.vals)]]

\* The array time after line 429: "time - phase * period" builds a new
\* array.  Mutated: the subtraction is made in place.
TimeAfterFoldInPlace(time, t0, period) ==
  [i \in 1..Len(time) |-> time[i] - PyMod(t0, period)]

TimeAfterFold(time, t0, period) == time

\* plot has ended when the three steps have run.
AfterStep(ran) == IF Len(ran) = 3 THEN "done" ELSE "cleaned"

\* plot ends in the step at with the exception err.
Failed(p, at, err) == [p EXCEPT !.pc = "failed", !.at = at, !.err = err]

\* lines 262-311: self.ticid is set, the light curve of the source is
\* fetched and drawn, cleaned by _clean_data (which sets self.lc), and its
\* arrays are bound to time and flux.  bls and amp are what the library
\* calls of the later steps give for these arrays.
PlotCall ==
  /\ pl.pc = "idle"
  /\ \E src \in Sources, n \in PlotLens, tm \in Timings, sh \in FluxShapes,
        power \in [1..2 -> 0..1], ash \in AmpShapes :
       LET series == InputLc(n, tm, sh)
           local  == LocalLc(src, series, series)
           start  == [NoPlot EXCEPT !.source = src,
                        !.input = IF src = "input" THEN series ELSE EmptyLc]
       IN  IF ~local.bound
           THEN /\ pl' = Failed(start, "fetch", "UnboundLocalError")
                /\ UNCHANGED cleanVars
           ELSE IF CleanOutcome(local.lc) # "returned"
           THEN /\ pl' = Failed(start, "clean", CleanOutcome(local.lc))
                /\ UNCHANGED cleanVars
           ELSE LET new == Cleaned(local.lc)
                    id  == IF self_lc = 1 THEN 2 ELSE 1
                IN  /\ heap' = [heap EXCEPT ![id] = new]
                    /\ callerLc' = id
                    /\ self_lc' = id
                    /\ cleaned' = cleaned \cup {id}
                    /\ lastResult' = [set |-> TRUE, val |-> new]
                    /\ call' = [outcome |-> "returned", arg |-> id,
                                ret |-> id, wasCleaned |-> FALSE,
                                before |-> local.lc, after |-> new,
                                argAfter |-> new]
                    /\ used' = NoUse
                    /\ pl' = [start EXCEPT !.pc = "cleaned",
                                !.time = new.time, !.flux = new.flux,
                                !.time0 = new.time, !.flux0 = new.flux,
                                !.bls = BlsResults(2, power),
                                !.amp = AmpOf(FasperNout(new.time), ash)]
  /\ UNCHANGED <<bm, el, spectrumVars, transitVars, foldVars>>

\* lines 313-318: the transit search over 1 to 21 days and its candidate.
PlotTransit ==
  /\ pl.pc = "cleaned"
  /\ \A k \in 1..Len(pl.ran) : pl.ran[k] # "transit"
  /\ \E out \in BlsOutcomes(Len(pl.time), MinPeriodDays, MaxPeriodDays) :
       pl' = IF out # "ok" THEN Failed(pl, "transit", out)
             ELSE [pl EXCEPT !.cand = CandidateOf(pl.bls),
                             !.ran = Append(pl.ran, "transit"),
                             !.pc = AfterStep(Append(pl.ran, "transit"))]
  /\ UNCHANGED <<bm, el, cleanVars, spectrumVars, transitVars, foldVars>>

\* lines 339-367: the spectrum and its autocorrelation.
PlotSpectral ==
  /\ pl.pc = "cleaned"
  /\ \A k \in 1..Len(pl.ran) : pl.ran[k] # "spectral"
  /\ pl' = IF SpectralOutcome(pl.time) # "ok"
           THEN Failed(pl, "spectral", SpectralOutcome(pl.time))
           ELSE [pl EXCEPT !.spectrum = SpectrumOf(pl.time, pl.flux, pl.amp),
                           !.ran = Append(pl.ran, "spectral"),
                           !.pc = AfterStep(Append(pl.ran, "spectral"))]
  /\ UNCHANGED <<bm, el, cleanVars, spectrumVars, transitVars, foldVars>>

\* lines 428-432: the fold at the period and epoch of the candidate.
PlotFold ==
  /\ pl.pc = "cleaned"
  /\ pl.cand.set
  /\ \A k \in 1..Len(pl.ran) : pl.ran[k] # "fold"
  /\ LET period == PeriodUnits(pl.cand.period)
     IN  pl' = [pl EXCEPT !.phases = FoldPhases(pl.time, pl.cand.t0, period),
                          !.time = TimeAfterFold(pl.time, pl.cand.t0, period),
                          !.ran = Append(pl.ran, "fold"),
                          !.pc = AfterStep(Append(pl.ran, "fold"))]
  /\ UNCHANGED <<bm, el, cleanVars, spectrumVars, transitVars, foldVars>>

\* _fit.build_model, lines 650-657, called by fit_starry_model with the
\* arrays of self.lc and the period range of its caller: the transit
\* search that sets the priors.  best is the grid index of the candidate,
\* 0 when there is none.
BuildModel ==
  /\ self_lc # 0
  /\ bm.outcome = "none"
  /\ \E minimum_period \in 1..MaxSearchDays, maximum_period \in 1..MaxSearchDays,
        power \in [1..2 -> 0..1] :
       \E out \in BlsOutcomes(Len(heap[self_lc].time), minimum_period,
                              maximum_period) :
         bm' = [outcome |-> out, n |-> Len(heap[self_lc].time),
                minimum_period |-> minimum_period,
                maximum_period |-> maximum_period,
                best |-> IF out = "ok" THEN ArgMax(power) ELSE 0]
  /\ UNCHANGED <<pl, el, cleanVars, spectrumVars, transitVars, foldVars>>

InitPlot ==
  CleanIdle /\ SpectrumIdle /\ TransitIdle /\ FoldIdle /\ CallsIdle

NextPlot == PlotCall \/ PlotTransit \/ PlotSpectral \/ PlotFold \/ BuildModel

SpecPlot == InitPlot /\ [][NextPlot]_vars

(***************************************************************************)
(* from_eleanor, lines 105-158.  A light curve is the sequence of the      *)
(* sectors appended to it; a breakpoint is the last sector of raw_lc when  *)
(* it was taken (raw_lc.time[-1]).                                         *)
(***************************************************************************)
MaxSectors == 4

\* The statement of the loop body (lines 146-155) that raises, if any:
\* the download of lines 146-148, or the building and appending of one of
\* the four light curves of the sector.
FailurePoints == {"none", "data", "raw", "corr", "pca", "psf"}

\* lc.append(...) of the sector s unless the statement was not reached.
AppendIf(reached, lc, s) == IF reached THEN Append(lc, s) ELSE lc

\* The statements of lines 150-155 that have run when the one named by
\* fail raises: each rebinds its light curve as soon as it has run, and
\* the except clause of lines 156-157 undoes nothing.
Reached(fail) ==
  [raw  |-> fail \in {"none", "corr", "pca", "psf"},
   corr |-> fail \in {"none", "pca", "psf"},
   pca  |-> fail \in {"none", "psf"},
   psf  |-> fail = "none",
   breakpoint |-> fail = "none"]

\* lines 124-139: the sectors of the target are found and the four light
\* curves of the first one are built; a failure here is not caught.
FirstSector ==
  /\ el.pc = "idle"
  /\ \E n \in 1..MaxSectors, ok \in BOOLEAN :
       el' = IF ok
             THEN [pc |-> "loop", sectors |-> n, next |-> 2,
                   raw |-> << 1 >>, corr |-> << 1 >>, pca |-> << 1 >>,
                   psf |-> << 1 >>, breakpoints |-> << 1 >>]
             ELSE [NoSectors EXCEPT !.pc = "failed", !.sectors = n]
  /\ UNCHANGED <<pl, bm, cleanVars, spectrumVars, transitVars, foldVars>>

\* lines 142-157: one pass of the loop over sectors[1:].
FurtherSector ==
  /\ el.pc = "loop"
  /\ el.next <= el.sectors
  /\ \E fail \in FailurePoints :
       LET r   == Reached(fail)
           raw == AppendIf(r.raw, el.raw, el.next)
       IN  el' = [el EXCEPT
                    !.raw  = raw,
                    !.corr = AppendIf(r.corr, el.corr, el.next),
                    !.pca  = AppendIf(r.pca, el.pca, el.next),
                    !.psf  = AppendIf(r.psf, el.psf, el.next),
                    !.breakpoints =
                       AppendIf(r.breakpoint, el.breakpoints, raw[Len(raw)]),
                    !.next = el.next + 1]
  /\ UNCHANGED <<pl, bm, cleanVars, spectrumVars, transitVars, foldVars>>

\* line 158: the collection of the four light curves is returned.
ReturnCollection ==
  /\ el.pc = "loop"
  /\ el.next > el.sectors
  /\ el' = [el EXCEPT !.pc = "returned"]
  /\ UNCHANGED <<pl, bm, cleanVars, spectrumVars, transitVars, foldVars>>

InitEleanor ==
  CleanIdle /\ SpectrumIdle /\ TransitIdle /\ FoldIdle /\ CallsIdle

NextEleanor == FirstSector \/ FurtherSector \/ ReturnCollection

SpecEleanor == InitEleanor /\ [][NextEleanor]_vars

(***************************************************************************)
(* Claims about the cleaner (checked under SpecClean).                     *)
(***************************************************************************)
Returned == call.outcome = "returned"

SameSamples(a, b) == a.time = b.time /\ a.flux = b.flux

\* C1 (as stated): cleaning the result of an earlier cleaning returns a
\* series with the same samples (times, flux values, length) as that result.
C1_Idempotent ==
  (Returned /\ call.wasCleaned) => SameSamples(call.after, call.before)

\* C1 (amended): cleaning the result of an earlier cleaning again removes
\* its first 30 samples: the second result has at most max(0, n - 30)
\* samples, each with the time of one of samples 31..n of the first result,
\* and it equals the first result only when that was empty.
C1_BurnInAgain ==
  (Returned /\ call.wasCleaned) =>
    LET n == Len(call.before.time)
    IN  /\ Len(call.after.time) <= Max(0, n - BurnIn)
        /\ \A j \in 1..Len(call.after.time) :
             \E i \in (BurnIn + 1)..n : call.after.time[j] = call.before.time[i]
        /\ (SameSamples(call.after, call.before) <=> n = 0)

C1_Witness ==
  /\ Returned /\ call.wasCleaned
  /\ Len(call.before.time) > BurnIn
  /\ Len(call.after.time) > 0

\* C2: after _clean_data has returned, the time, flux and flux_err arrays of
\* the returned light curve have the same length.
C2_EqualLengths ==
  Returned => /\ Len(call.after.time) = Len(call.after.flux)
              /\ Len(call.after.flux) = Len(call.after.flux_err)

C2_Witness ==
  /\ Returned
  /\ Len(call.after.time) > 0
  /\ Len(call.after.time) < Len(call.before.time) - BurnIn

\* C3 (as stated): the anomaly window is half-open [1339, 1341): no sample
\* with 1339 <= time < 1341 is left in the returned series.
C3_HalfOpen ==
  Returned =>
    \A i \in 1..Len(call.before.time) :
      (call.before.time[i] >= MomdumpLo /\ call.before.time[i] < MomdumpHi)
        => call.before.time[i] \notin Range(call.after.time)

\* C3 (amended): the anomaly window is the open interval (1339, 1341): no
\* sample with 1339 < time < 1341 is left in the returned series, and a
\* sample at exactly 1339 or exactly 1341 that is past the burn-in and not
\* an outlier is kept.
C3_OpenWindow ==
  Returned =>
    \A i \in 1..Len(call.before.time) :
      LET t == call.before.time[i]
      IN  /\ (t > MomdumpLo /\ t < MomdumpHi) => t \notin Range(call.after.time)
          /\ ((t = MomdumpLo \/ t = MomdumpHi) /\ i > BurnIn
                /\ ~Outliers(call.before.flux)[i])
               => t \in Range(call.after.time)

C3_Witness ==
  /\ Returned
  /\ MomdumpLo \in Range(call.after.time)
  /\ MomdumpHi \in Range(call.after.time)
  /\ \E i \in (BurnIn + 1)..Len(call.before.time) :
       /\ call.before.time[i] > MomdumpLo /\ call.before.time[i] < MomdumpHi
       /\ call.before.time[i] \notin Range(call.after.time)

\* C4 (as stated): after _clean_data has returned, the object passed in
\* still holds the time, flux and flux_err arrays it had before the call.
C4_InputUntouched == Returned => call.argAfter = call.before

\* C4 (amended): _clean_data works in place: it returns the object passed
\* in and stores that same object in self.lc, and after the call that
\* object holds the cleaned arrays, which lack at least the first 30
\* samples it had before.
C4_InPlace ==
  Returned =>
    /\ call.ret = call.arg
    /\ self_lc = call.arg
    /\ call.argAfter = call.after
    /\ heap[call.arg] = call.after
    /\ Len(call.argAfter.time) <= Max(0, Len(call.before.time) - BurnIn)

C4_Witness ==
  /\ Returned
  /\ Len(call.before.time) > BurnIn
  /\ call.argAfter # call.before
  /\ Len(call.argAfter.time) > 0

\* Every sample of the series is covered by the combined mask.
AllMasked(lc) ==
  /\ Len(lc.time) > 0
  /\ \A i \in 1..Len(lc.time) : CombinedMask(lc)[i]

TwiceVariance == RMul(RInt(2), Variance(spIn.flux))

\* C6 (as stated): for the power spectrum plot hands on (truncated to
\* freq < nyq + 150), sum(power) * (freq[1] - freq[0]) = 2 * var(flux * 1e6).
C6_ReturnedNormalized ==
  (sp.stage # "none" /\ Len(sp.freq) >= 2) =>
    REq(IntegratedPower(sp.fts, RSub(sp.freq[2], sp.freq[1])), TwiceVariance)

\* C6 (amended): the normalisation holds for the power array before the
\* truncation: sum(power) * (freq[1] - freq[0]) = 2 * var(flux * 1e6) over
\* the whole fasper grid.  The array handed on keeps only freq < nyq + 150
\* and integrates to 2 * var * (sum of the kept amp / sum of all amp), which
\* is at most 2 * var and equal to it only when no power is cut off.
C6_NormalizedBeforeCut ==
  (sp.stage # "none") =>
    LET bin  == RSub(sp.freqAll[2], sp.freqAll[1])
        kept == IntegratedPower(sp.fts, bin)
    IN  /\ REq(IntegratedPower(sp.ftsAll, bin), TwiceVariance)
        /\ REq(RMul(kept, RInt(SumSeq(sp.ftsAll.vals))),
               RMul(TwiceVariance, RInt(SumSeq(sp.fts.vals))))
        /\ ~RLess(TwiceVariance, kept)
        /\ (REq(kept, TwiceVariance)
              <=> SumSeq(sp.fts.vals) = SumSeq(sp.ftsAll.vals))

C6_Witness ==
  /\ sp.stage # "none"
  /\ Len(sp.freq) >= 2
  /\ Len(sp.freq) < Len(sp.freqAll)
  /\ RLess(IntegratedPower(sp.fts, RSub(sp.freq[2], sp.freq[1])), TwiceVariance)
  /\ RLess(RInt(0), IntegratedPower(sp.fts, RSub(sp.freq[2], sp.freq[1])))

\* C7 (as stated): for every length N, odd or even, the autocorrelation
\* satisfies acf[i] = acf[N-1-i] for i in 0..N-1.
C7_Symmetric ==
  (sp.stage = "acf") =>
    LET N == Len(sp.acf.vals)
    IN  \A i \in 1..N : sp.acf.vals[i] = sp.acf.vals[N + 1 - i]

\* C7 (amended): the zero lag of the 'same'-mode autocorrelation is at index
\* N div 2.  For odd N, acf[i] = acf[N-1-i] for i in 0..N-1; for even N the
\* symmetry is about index N/2: acf[i] = acf[N-i] for i in 1..N-1, and
\* acf[0] has no partner.
C7_SymmetricAboutZeroLag ==
  (sp.stage = "acf") =>
    LET N == Len(sp.acf.vals)
    IN  /\ Len(sp.acf.vals) = Len(sp.fts.vals)
        /\ (N % 2 = 1) => \A i \in 1..N : sp.acf.vals[i] = sp.acf.vals[N + 1 - i]
        /\ (N % 2 = 0) => \A i \in 2..N : sp.acf.vals[i] = sp.acf.vals[N + 2 - i]
        /\ \A i \in 1..N : sp.acf.vals[i] <= sp.acf.vals[N \div 2 + 1]

C7_Witness ==
  /\ sp.stage = "acf"
  /\ Len(sp.acf.vals) % 2 = 0
  /\ Len(sp.acf.vals) >= 4
  /\ sp.acf.vals[1] # sp.acf.vals[Len(sp.acf.vals)]
  /\ sp.acf.vals[2] > 0

(***************************************************************************)
(* Claims about the transit search (checked under SpecTransit).            *)
(***************************************************************************)
\* k is the smallest index at which the detection power is maximal.
FirstMaximum(k) ==
  /\ k \in 1..Len(results.power)
  /\ \A j \in 1..Len(results.power) : results.power[j] <= results.power[k]
  /\ \A j \in 1..(k - 1) : results.power[j] < results.power[k]

\* C8: the reported period, t0, depth and depth_snr are the values of one
\* grid entry, the first one of maximal detection power; the grid ascends,
\* so among tied entries the one of lowest period is reported.
C8_FirstMaximumWins ==
  cand.set =>
    \E k \in 1..Len(results.power) :
      /\ FirstMaximum(k)
      /\ cand.period = results.period[k]
      /\ cand.t0 = results.transit_time[k]
      /\ cand.depth = results.depth[k]
      /\ cand.depth_snr = results.depth_snr[k]
      /\ \A j \in 1..Len(results.power) :
           (j # k /\ results.power[j] = results.power[k])
             => RLess(cand.period, results.period[j])

C8_Witness ==
  /\ cand.set
  /\ \E k, j \in 1..Len(results.power) :
       /\ FirstMaximum(k) /\ k > 1 /\ j > k
       /\ results.power[j] = results.power[k]
       /\ cand.period = results.period[k]

(***************************************************************************)
(* Claims about phase folding (checked under SpecFold).                    *)
(***************************************************************************)
\* The least non-negative residue of a modulo b (b > 0).
Residue(a, b) ==
  CHOOSE r \in 0..(b - 1) : \E q \in (0 - Abs(a))..Abs(a) : a = q * b + r

\* C9: every phase is ((time - t0) / period) mod 1, less 1 when that exceeds
\* 0.5: it lies in (-0.5, 0.5], a value of exactly 0.5 stays 0.5, and a
\* sample at t0 + k * period has phase 0.
C9_PhaseRange ==
  folded.set =>
    \A i \in 1..Len(foldIn.time) :
      LET m  == Residue(foldIn.time[i] - foldIn.t0, foldIn.period)
          ph == folded.phase[i]
      IN  /\ RLess(<< -1, 2 >>, ph) /\ ~RLess(<< 1, 2 >>, ph)
          /\ (2 * m <= foldIn.period) => REq(ph, << m, foldIn.period >>)
          /\ (2 * m > foldIn.period)
               => REq(ph, << m - foldIn.period, foldIn.period >>)
          /\ (m = 0) => ph = << 0, 1 >>

C9_Witness ==
  /\ folded.set
  /\ \E i, j, k \in 1..Len(foldIn.time) :
       /\ folded.phase[i] = << 1, 2 >>
       /\ folded.phase[j] = << 0, 1 >> /\ foldIn.time[j] # foldIn.t0
       /\ RLess(folded.phase[k], << 0, 1 >>)

\* C10: folding at the epoch t0 + period gives every sample the phase that
\* folding at the epoch t0 gives it.
C10_PeriodicInEpoch ==
  (folded.set /\ foldedShift.set) => foldedShift.phase = folded.phase

C10_Witness ==
  /\ folded.set /\ foldedShift.set
  /\ foldIn.t0 < 0 /\ foldIn.t0 + foldIn.period > 0
  /\ \E i, j \in 1..Len(foldIn.time) :
       /\ folded.phase[i] # folded.phase[j]
       /\ RLess(folded.phase[i], << 0, 1 >>)

\* The number of samples i whose phase and flux are the pair <<ph, fl>>.
PairCount(phases, fluxes, ph, fl) ==
  Cardinality({ i \in 1..Len(phases) : phases[i] = ph /\ fluxes[i] = fl })

Ascending(a) == \A j \in 1..(Len(a) - 1) : ~RLess(a[j + 1], a[j])

\* Each flux of the folded series is with the phase of its own sample.
PairedWithOwnPhase ==
  /\ Len(foldSort.sorted) = Len(folded.phase)
  /\ Len(foldSort.foldfluxes) = Len(folded.phase)
  /\ \A i \in 1..Len(folded.phase) :
       PairCount(foldSort.sorted, foldSort.foldfluxes,
                 folded.phase[i], foldSort.flux[i])
         = PairCount(folded.phase, foldSort.flux,
                     folded.phase[i], foldSort.flux[i])

\* C11 (as stated): the folded series is the samples in ascending phase,
\* each flux with the phase of its own sample, and samples of equal phase
\* keep the relative order they have in the input.
C11_StableSort ==
  foldSort.set =>
    /\ Ascending(foldSort.sorted)
    /\ PairedWithOwnPhase
    /\ \A j, k \in 1..Len(foldSort.order) :
         (j < k /\ folded.phase[foldSort.order[j]] = folded.phase[foldSort.order[k]])
           => foldSort.order[j] < foldSort.order[k]

\* C11 (amended): the folded series is the samples in ascending phase, each
\* flux with the phase of its own sample; the relative order of samples of
\* equal phase is not fixed (np.argsort is called with its default,
\* unstable kind).
C11_SortedPaired ==
  foldSort.set => (Ascending(foldSort.sorted) /\ PairedWithOwnPhase)

C11_Witness ==
  /\ foldSort.set
  /\ \E j, k \in 1..Len(foldSort.order) :
       /\ j < k
       /\ foldSort.sorted[j] = foldSort.sorted[k]
       /\ foldSort.order[j] > foldSort.order[k]
       /\ foldSort.foldfluxes[j] # foldSort.foldfluxes[k]
  /\ \E j \in 1..Len(foldSort.order) : foldSort.order[j] # j

\* C16: self.lc is the light curve the most recent _clean_data call
\* returned (there is none before the first such call); a reader called
\* with neither ticid nor lc works on exactly that light curve, and fails
\* when no _clean_data call has returned yet.
C16_CachedSeries ==
  /\ (self_lc # 0) <=> lastResult.set
  /\ self_lc # 0 => heap[self_lc] = lastResult.val
  /\ used.by = "self.lc" =>
       IF lastResult.set
       THEN used.outcome = "ran" /\ used.lc = lastResult.val
       ELSE used.outcome = "AttributeError"

C16_Witness ==
  /\ used.by = "self.lc" /\ used.outcome = "ran"
  /\ callerLc # 0 /\ callerLc # self_lc
  /\ heap[callerLc] # heap[self_lc]
  /\ Len(used.lc.time) > 0

\* The step has run to its end in the present call of plot.
Ran(step) == \E k \in 1..Len(pl.ran) : pl.ran[k] = step

C14_InputAnalysed ==
  (pl.source = "input" /\ pl.pc # "idle") =>
    /\ pl.err # "UnboundLocalError"
    /\ CleanOutcome(pl.input) = "returned" =>
         (pl.time0 = Cleaned(pl.input).time
            /\ pl.flux0 = Cleaned(pl.input).flux)

\* C15: the spectral step and the search-and-fold steps leave the cleaned
\* arrays as they are, and in every order in which they run the spectrum,
\* its autocorrelation, the candidate and the folded phases are the ones
\* of the arrays of line 311.
C15_OrderIndependent ==
  /\ pl.time = pl.time0 /\ pl.flux = pl.flux0
  /\ Ran("spectral") => pl.spectrum = SpectrumOf(pl.time0, pl.flux0, pl.amp)
  /\ Ran("transit") => pl.cand = CandidateOf(pl.bls)
  /\ Ran("fold") =>
       pl.phases = FoldPhases(pl.time0, pl.cand.t0,
                              PeriodUnits(pl.cand.period))
  /\ pl.pc \in {"cleaned", "done"} =>
       (heap[self_lc].time = pl.time0 /\ heap[self_lc].flux = pl.flux0)

C15_Witness ==
  /\ pl.pc = "done"
  /\ pl.ran = << "transit", "fold", "spectral" >>
  /\ Len(pl.time0) = 3
  /\ \E i, j \in 1..Len(pl.phases) : pl.phases[i] # pl.phases[j]
  /\ Len(pl.spectrum.acf.vals) > 0
  /\ PyMod(pl.cand.t0, PeriodUnits(pl.cand.period)) # 0

\* C17 (as stated): every further sector is all or nothing: the four light
\* curves hold the same sectors, and there is one breakpoint for every
\* sector they hold.
C17_AllOrNothing ==
  el.pc \in {"loop", "returned"} =>
    /\ el.corr = el.raw /\ el.pca = el.raw /\ el.psf = el.raw
    /\ Len(el.breakpoints) = Len(el.raw)

====
